---- MODULE Spec2Model ----
(***************************************************************************)
(* Model of src/main.js: the changelog-to-Slack release notifier.          *)
(*                                                                         *)
(* Strings are sequences of one-character strings, so that every regular   *)
(* expression, replaceAll and split of the source is computed character by *)
(* character.  JavaScript's undefined and null are the values below, which *)
(* differ from every modelled string and object.                           *)
(***************************************************************************)
EXTENDS Integers, Sequences, FiniteSets, TLC

Undefined == <<"undefined">>
Null == <<"null">>
\* undefined where an object is expected
UndefinedObject == [undefined |-> TRUE]

Min(S) == CHOOSE x \in S : \A y \in S : x <= y

Digits == {"0", "1", "2", "3", "4", "5", "6", "7", "8", "9"}

(***************************************************************************)
(* String primitives of the JavaScript runtime used by main.js.            *)
(***************************************************************************)
startsWith(s, p) == Len(s) >= Len(p) /\ SubSeq(s, 1, Len(p)) = p

OccursAt(s, p, i) ==
    /\ i >= 1
    /\ i + Len(p) - 1 <= Len(s)
    /\ SubSeq(s, i, i + Len(p) - 1) = p

\* String.prototype.indexOf(p, from), 1-based; 0 when p does not occur.
IndexFrom(s, p, from) ==
    LET c == {i \in from..(Len(s) - Len(p) + 1) : OccursAt(s, p, i)}
    IN  IF c = {} THEN 0 ELSE Min(c)

RECURSIVE replaceFrom(_, _, _, _)
replaceFrom(s, pat, rep, from) ==
    LET i == IndexFrom(s, pat, from)
    IN  IF i = 0
        THEN SubSeq(s, from, Len(s))
        ELSE SubSeq(s, from, i - 1) \o rep \o replaceFrom(s, pat, rep, i + Len(pat))

\* String.prototype.replaceAll(pat, rep) with a string pattern.
replaceAll(s, pat, rep) == replaceFrom(s, pat, rep, 1)

\* String.prototype.replace(pat, rep) with a string pattern: first occurrence only.
replace(s, pat, rep) ==
    LET i == IndexFrom(s, pat, 1)
    IN  IF i = 0
        THEN s
        ELSE SubSeq(s, 1, i - 1) \o rep \o SubSeq(s, i + Len(pat), Len(s))

RECURSIVE splitFrom(_, _, _)
splitFrom(s, sep, from) ==
    LET i == IndexFrom(s, sep, from)
    IN  IF i = 0
        THEN <<SubSeq(s, from, Len(s))>>
        ELSE <<SubSeq(s, from, i - 1)>> \o splitFrom(s, sep, i + Len(sep))

\* String.prototype.split(sep) with a non-empty string separator.
split(s, sep) == splitFrom(s, sep, 1)

\* Array destructuring / indexing: a missing element reads as undefined.
At(arr, i) == IF i <= Len(arr) THEN arr[i] ELSE Undefined

(***************************************************************************)
(* The regular expressions of parseMarkdown.  Each /open(.*?)close/ is     *)
(* matched at the leftmost open that has a close after it, with the lazy   *)
(* group ending at the first such close; the result is the capture group 1 *)
(* or Null.                                                                *)
(***************************************************************************)
LazyGroup(s, open, close) ==
    LET i == IndexFrom(s, open, 1)
        j == IF i = 0 THEN 0 ELSE IndexFrom(s, close, i + Len(open))
    IN  IF i = 0 \/ j = 0 THEN Null ELSE SubSeq(s, i + Len(open), j - 1)

\* line.match(/# \[(.*?)\]/)
MatchBracketVersion(s) == LazyGroup(s, <<"#", " ", "[">>, <<"]">>)

\* line.match(/\((.*?)\)/)
MatchParen(s) == LazyGroup(s, <<"(">>, <<")">>)

\* link.match(/\[(.*?)\]/)
MatchSquare(s) == LazyGroup(s, <<"[">>, <<"]">>)

\* line.match(/# (.*?) /)
MatchBareVersion(s) == LazyGroup(s, <<"#", " ">>, <<" ">>)

DateAt(s, i) ==
    /\ i >= 1
    /\ i + 9 <= Len(s)
    /\ \A k \in {0, 1, 2, 3, 5, 6, 8, 9} : s[i + k] \in Digits
    /\ s[i + 4] = "-"
    /\ s[i + 7] = "-"

\* line.match(/\d{4}-\d{2}-\d{2}/): the whole match (group 0) or Null.
MatchDate(s) ==
    LET c == {i \in 1..(Len(s) - 9) : DateAt(s, i)}
    IN  IF c = {} THEN Null ELSE SubSeq(s, Min(c), Min(c) + 9)

AllDigits(s, from, to) == \A k \in from..to : s[k] \in Digits

\* line.match(/^# \d+.\d+.\d+/) is not null.  The two dots are wildcards.
MatchBareHeader(s) ==
    /\ startsWith(s, <<"#", " ">>)
    /\ \E a \in 3..Len(s) : \E b \in (a + 2)..Len(s) : \E c \in (b + 2)..Len(s) :
          /\ AllDigits(s, 3, a)
          /\ AllDigits(s, a + 2, b)
          /\ AllDigits(s, b + 2, c)

\* One match of /\[(.*?)\]\((.*?)\)/ at or after position from: the position
\* of its first and last character, or <<0, 0>>.
LinkFrom(s, from) ==
    LET i == IndexFrom(s, <<"[">>, from)
        j == IF i = 0 THEN 0 ELSE IndexFrom(s, <<"]", "(">>, i + 1)
        k == IF j = 0 THEN 0 ELSE IndexFrom(s, <<")">>, j + 2)
    IN  IF k = 0 THEN <<0, 0>> ELSE <<i, k>>

RECURSIVE matchLinksFrom(_, _)
matchLinksFrom(s, from) ==
    LET m == LinkFrom(s, from)
    IN  IF m[1] = 0
        THEN <<>>
        ELSE <<SubSeq(s, m[1], m[2])>> \o matchLinksFrom(s, m[2] + 1)

\* item.match(/\[(.*?)\]\((.*?)\)/g) ?? []
matchLinks(s) == matchLinksFrom(s, 1)

(***************************************************************************)
(* parseMarkdown, first loop (lines 64-103): every line is turned into     *)
(* zero or more elements.  A result is [threw, elements]; threw models the *)
(* TypeError of indexing a null match or of calling split on undefined.    *)
(***************************************************************************)
Threw == [threw |-> TRUE, elements |-> <<>>]
Elems(es) == [threw |-> FALSE, elements |-> es]

\* lines 65-70
BracketHeaderElements(line) ==
    IF startsWith(line, <<"#", " ", "[">>) \/ startsWith(line, <<"#", "#", " ", "[">>)
    THEN LET version == MatchBracketVersion(line)
             date == MatchDate(line)
             url == MatchParen(line)
         IN  IF version = Null \/ date = Null \/ url = Null
             THEN Threw
             ELSE Elems(<<[type |-> "Header", raw |-> line, version |-> version,
                           date |-> date, url |-> url]>>)
    ELSE Elems(<<>>)

\* lines 71-75; the element has no url property, which reads as undefined
BareHeaderElements(line) ==
    IF MatchBareHeader(line)
    THEN LET version == MatchBareVersion(line)
             date == MatchDate(line)
         IN  IF version = Null \/ date = Null
             THEN Threw
             ELSE Elems(<<[type |-> "Header", raw |-> line, version |-> version,
                           date |-> date, url |-> Undefined]>>)
    ELSE Elems(<<>>)

\* lines 76-79
SectionElements(line) ==
    IF startsWith(line, <<"#", "#", "#", " ">>)
    THEN Elems(<<[type |-> "Section", raw |-> line,
                  title |-> replace(line, <<"#", "#", "#", " ">>, <<>>)]>>)
    ELSE Elems(<<>>)

\* lines 81-86
normalizeItem(line) ==
    LET s1 == replaceAll(line, <<"*", "*">>, <<>>)
        s2 == replaceAll(s1, <<"*", " ">>, <<>>)
        s3 == replaceAll(s2, <<"&">>, <<"&", "a", "m", "p", ";">>)
        s4 == replaceAll(s3, <<"<">>, <<"&", "l", "t", ";">>)
    IN  replaceAll(s4, <<">">>, <<"&", "g", "t", ";">>)

TextRun(text) == [type |-> "Text", text |-> text]
LinkRun(raw, url, text) == [type |-> "Link", raw |-> raw, url |-> url, text |-> text]

\* line 94: const [before, after] = itemCpy.split(link)
splitBefore(itemCpy, link) == At(split(itemCpy, link), 1)
splitRest(itemCpy, link) == At(split(itemCpy, link), 2)

\* lines 90-99: the loop over the links, then the trailing Text run
RECURSIVE itemSections(_, _)
itemSections(links, itemCpy) ==
    IF links = <<>>
    THEN [threw |-> FALSE, sections |-> <<TextRun(itemCpy)>>]
    ELSE IF itemCpy = Undefined
    THEN [threw |-> TRUE, sections |-> <<>>]
    ELSE LET link == Head(links)
             url == MatchParen(link)
             text == MatchSquare(link)
             rest == itemSections(Tail(links), splitRest(itemCpy, link))
         IN  IF url = Null \/ text = Null
             THEN [threw |-> TRUE, sections |-> <<>>]
             ELSE [threw |-> rest.threw,
                   sections |-> <<TextRun(splitBefore(itemCpy, link)),
                                  LinkRun(link, url, text)>> \o rest.sections]

\* lines 80-102
ItemElements(line) ==
    IF startsWith(line, <<"*", " ">>)
    THEN LET item == normalizeItem(line)
             r == itemSections(matchLinks(item), item)
         IN  IF r.threw
             THEN Threw
             ELSE Elems(<<[type |-> "Item", raw |-> line, sections |-> r.sections]>>)
    ELSE Elems(<<>>)

\* lines 65-102: the body of the first loop for one line
ScanLine(line) ==
    LET h == BracketHeaderElements(line)
        b == BareHeaderElements(line)
        s == SectionElements(line)
        i == ItemElements(line)
    IN  IF h.threw \/ b.threw \/ s.threw \/ i.threw
        THEN Threw
        ELSE Elems(h.elements \o b.elements \o s.elements \o i.elements)

RECURSIVE ScanLines(_)
ScanLines(lines) ==
    IF lines = <<>>
    THEN Elems(<<>>)
    ELSE LET first == ScanLine(Head(lines))
             rest == ScanLines(Tail(lines))
         IN  IF first.threw \/ rest.threw
             THEN Threw
             ELSE Elems(first.elements \o rest.elements)

(***************************************************************************)
(* parseMarkdown, second loop (lines 105-137).  currentVersion is a        *)
(* reference: once pushed it is the same object as the last entry of       *)
(* versions, so a change to it is a change to that entry.                  *)
(***************************************************************************)
\* lines 105-112
InitialBuild ==
    [threw |-> FALSE,
     versions |-> <<>>,
     pushed |-> FALSE,
     currentVersion |-> [header |-> [version |-> <<>>, date |-> <<>>, url |-> <<>>],
                         sections |-> <<>>]]

WithSections(st, sections) ==
    LET cv == [st.currentVersion EXCEPT !.sections = sections]
    IN  [st EXCEPT !.currentVersion = cv,
                   !.versions = IF st.pushed
                                THEN [st.versions EXCEPT ![Len(st.versions)] = cv]
                                ELSE st.versions]

\* The variant of OnHeader that puts the new record in front.
OnHeaderPrepend(st, element) ==
    LET cv == [header |-> [version |-> element.version, date |-> element.date,
                           url |-> element.url],
               sections |-> <<>>]
    IN  [st EXCEPT !.currentVersion = cv, !.versions = <<cv>> \o st.versions,
                   !.pushed = TRUE]

\* The variant of OnHeader that leaves the sections of the previous record in
\* place instead of starting from an empty list.
OnHeaderKeepSections(st, element) ==
    LET cv == [header |-> [version |-> element.version, date |-> element.date,
                           url |-> element.url],
               sections |-> st.currentVersion.sections]
    IN  [st EXCEPT !.currentVersion = cv, !.versions = Append(st.versions, cv),
                   !.pushed = TRUE]

\* lines 115-125
OnHeader(st, element) ==
    LET cv == [header |-> [version |-> element.version, date |-> element.date,
                           url |-> element.url],
               sections |-> <<>>]
    IN  [st EXCEPT !.currentVersion = cv, !.versions = Append(st.versions, cv),
                   !.pushed = TRUE]

\* lines 126-132
OnSection(st, element) ==
    WithSections(st, Append(st.currentVersion.sections,
                            [title |-> element.title, items |-> <<>>]))

\* lines 133-136; sections[-1] of an empty array is undefined and .items throws
OnItem(st, element) ==
    LET sections == st.currentVersion.sections
        n == Len(sections)
    IN  IF n = 0
        THEN [st EXCEPT !.threw = TRUE]
        ELSE WithSections(st, [sections EXCEPT ![n].items =
                 Append(@, [item |-> Undefined, sections |-> element.sections])])

\* lines 114-136: the body of the second loop for one element
OnElement(st, element) ==
    IF element.type = "Header" THEN OnHeader(st, element)
    ELSE IF element.type = "Section" THEN OnSection(st, element)
    ELSE IF element.type = "Item" THEN OnItem(st, element)
    ELSE st

RECURSIVE Build(_, _)
Build(st, elements) ==
    IF elements = <<>> \/ st.threw
    THEN st
    ELSE Build(OnElement(st, Head(elements)), Tail(elements))

\* line 139: return versions, unless the second loop threw
returnVersions(st) ==
    [threw |-> st.threw, versions |-> IF st.threw THEN <<>> ELSE st.versions]

\* lines 105-139, given the outcome of the first loop
buildVersions(scan) ==
    IF scan.threw
    THEN [threw |-> TRUE, versions |-> <<>>]
    ELSE returnVersions(Build(InitialBuild, scan.elements))

\* lines 60-140: [threw, versions]
parseMarkdown(text) == buildVersions(ScanLines(split(text, <<"\n">>)))

(***************************************************************************)
(* versionToBlocks (lines 147-212) and addHeader (lines 218-229).          *)
(***************************************************************************)
\* JavaScript truthiness of a string-or-undefined value
Truthy(x) == x # Undefined /\ x # Null /\ x # <<>>

\* ${x} inside a template literal
Interp(x) == IF x = Undefined THEN <<"u", "n", "d", "e", "f", "i", "n", "e", "d">> ELSE x

SectionBlock(text) == [type |-> "section", text |-> [type |-> "mrkdwn", text |-> text]]

\* The variant of summaryBlock that always renders the link form.
summaryBlockAlwaysLink(header) ==
    SectionBlock(<<"<">> \o Interp(header.url) \o <<"|">> \o Interp(header.version)
                 \o <<">", " ", "(">> \o Interp(header.date) \o <<")">>)

\* lines 149-165
summaryBlock(header) ==
    IF Truthy(header.url)
    THEN SectionBlock(<<"<">> \o Interp(header.url) \o <<"|">> \o Interp(header.version)
                      \o <<">", " ", "(">> \o Interp(header.date) \o <<")">>)
    ELSE SectionBlock(Interp(header.version) \o <<" ", "(">> \o Interp(header.date)
                      \o <<")">>)

\* lines 189-203
runElement(run) ==
    IF run.type = "Text" THEN [type |-> "text", text |-> run.text]
    ELSE IF run.type = "Link" THEN [type |-> "link", url |-> run.url, text |-> run.text]
    ELSE UndefinedObject

\* lines 186-205
itemElement(item) ==
    [type |-> "rich_text_section",
     elements |-> [i \in 1..Len(item.sections) |-> runElement(item.sections[i])]]

\* lines 167-209
sectionBlock(section) ==
    [type |-> "rich_text",
     elements |->
        <<[type |-> "rich_text_section",
           elements |-> <<[type |-> "text", text |-> Interp(section.title) \o <<"\n">>,
                           style |-> [bold |-> TRUE]]>>],
          [type |-> "rich_text_list", style |-> "bullet",
           elements |-> [i \in 1..Len(section.items) |-> itemElement(section.items[i])]]>>]

\* The variant of versionToBlocks that emits the sections last to first.
versionToBlocksReversed(version) ==
    LET n == Len(version.sections)
    IN  <<summaryBlock(version.header)>>
        \o [i \in 1..n |-> sectionBlock(version.sections[n + 1 - i])]

\* lines 147-212, for a version that is an object
versionToBlocks(version) ==
    <<summaryBlock(version.header)>>
    \o [i \in 1..Len(version.sections) |-> sectionBlock(version.sections[i])]

HeaderBlock(serviceName) ==
    [type |-> "header",
     text |-> [type |-> "plain_text",
               text |-> <<"R", "e", "l", "e", "a", "s", "e", " ", "N", "o", "t", "e", " ",
                          "-", " ">> \o Interp(serviceName)]]

\* The variant of addHeader that pushes the header instead of unshifting it.
addHeaderPush(blocks, serviceName) == Append(blocks, HeaderBlock(serviceName))

\* lines 218-229: blocks.unshift(...header)
addHeader(blocks, serviceName) == <<HeaderBlock(serviceName)>> \o blocks

(***************************************************************************)
(* getServiceName (lines 28-40).                                           *)
(***************************************************************************)
Lower == <<"a", "b", "c", "d", "e", "f", "g", "h", "i", "j", "k", "l", "m",
           "n", "o", "p", "q", "r", "s", "t", "u", "v", "w", "x", "y", "z">>
Upper == <<"A", "B", "C", "D", "E", "F", "G", "H", "I", "J", "K", "L", "M",
           "N", "O", "P", "Q", "R", "S", "T", "U", "V", "W", "X", "Y", "Z">>

toUpperCase(c) ==
    IF \E i \in 1..Len(Lower) : Lower[i] = c
    THEN Upper[CHOOSE i \in 1..Len(Lower) : Lower[i] = c]
    ELSE c

RECURSIVE join(_, _)
join(parts, sep) ==
    IF parts = <<>> THEN <<>>
    ELSE IF Len(parts) = 1 THEN parts[1]
    ELSE parts[1] \o sep \o join(Tail(parts), sep)

\* line 38
capitalize(word) ==
    IF word = <<>> THEN <<>> ELSE <<toUpperCase(word[1])>> \o Tail(word)

getServiceName(inputServiceName, repoName) ==
    IF Truthy(inputServiceName)
    THEN inputServiceName
    ELSE LET words == split(join(split(repoName, <<"-">>), <<" ">>), <<" ">>)
         IN  join([i \in 1..Len(words) |-> capitalize(words[i])], <<" ">>)

(***************************************************************************)
(* The run of the action (lines 7-22), one step per statement of run().    *)
(* Any throw inside the try block is caught at line 18 and reported with   *)
(* core.setFailed at line 20; sendMessage reports its own failures.        *)
(***************************************************************************)
VARIABLES
    inputServiceName,   \* core.getInput('service-name')
    repoName,           \* github.context.repo.repo
    changeLogFile,      \* the content of the change log on disk, Null when unreadable
    pc,                 \* the statement of run() to execute next
    serviceName,        \* line 9
    markdown,           \* line 12
    versions,           \* line 13
    latestVersion,      \* line 14
    blocks,             \* line 15
    posts,              \* the bodies handed to http.post, in order
    responses,          \* what the webhook answered, in order
    failures            \* the calls of core.setFailed, in order

vars == <<inputServiceName, repoName, changeLogFile, pc, serviceName, markdown,
          versions, latestVersion, blocks, posts, responses, failures>>

inputs == <<inputServiceName, repoName, changeLogFile>>

Failure(message, statusCode) == [message |-> message, statusCode |-> statusCode]

\* The messages of the errors thrown inside run()
ReadError == "ENOENT: no such file or directory"
ParseError == "Cannot read properties (parseMarkdown)"
RenderError == "Cannot read properties of undefined (reading 'header')"

\* lines 18-21: catch (error) { core.setFailed(error.message) }
Catch(message) ==
    /\ failures' = Append(failures, Failure(message, 0))
    /\ pc' = "done"

\* line 9
GetServiceName ==
    /\ pc = "getServiceName"
    /\ serviceName' = getServiceName(inputServiceName, repoName)
    /\ pc' = "readChangeLog"
    /\ UNCHANGED <<inputs, markdown, versions, latestVersion, blocks, posts, responses, failures>>

\* lines 10-12 and 24-26: fs.readFileSync throws when the file cannot be read
ReadChangeLog ==
    /\ pc = "readChangeLog"
    /\ IF changeLogFile = Null
       THEN /\ Catch(ReadError)
            /\ UNCHANGED markdown
       ELSE /\ markdown' = changeLogFile
            /\ pc' = "parseMarkdown"
            /\ UNCHANGED failures
    /\ UNCHANGED <<inputs, serviceName, versions, latestVersion, blocks, posts, responses>>

\* line 13
ParseMarkdown ==
    /\ pc = "parseMarkdown"
    /\ LET r == parseMarkdown(markdown)
       IN  IF r.threw
           THEN /\ Catch(ParseError)
                /\ UNCHANGED versions
           ELSE /\ versions' = r.versions
                /\ pc' = "versionToBlocks"
                /\ UNCHANGED failures
    /\ UNCHANGED <<inputs, serviceName, markdown, latestVersion, blocks, posts, responses>>

\* lines 14-15; versions[0] of an empty array is undefined, and versionToBlocks
\* then throws at line 149 on version.header
VersionToBlocks ==
    /\ pc = "versionToBlocks"
    /\ IF versions = <<>>
       THEN /\ latestVersion' = UndefinedObject
            /\ Catch(RenderError)
            /\ UNCHANGED blocks
       ELSE /\ latestVersion' = versions[1]
            /\ blocks' = versionToBlocks(versions[1])
            /\ pc' = "addHeader"
            /\ UNCHANGED failures
    /\ UNCHANGED <<inputs, serviceName, markdown, versions, posts, responses>>

\* line 16
AddHeader ==
    /\ pc = "addHeader"
    /\ blocks' = addHeader(blocks, serviceName)
    /\ pc' = "sendMessage"
    /\ UNCHANGED <<inputs, serviceName, markdown, versions, latestVersion, posts, responses, failures>>

\* What the webhook can answer: a status code, or a network error (statusCode 0).
StatusCodes == {200, 404, 500}
Responses == [error : {FALSE}, statusCode : StatusCodes] \cup {[error |-> TRUE, statusCode |-> 0]}

\* The variant of report that lets a non-200 status pass.
reportErrorsOnly(response) ==
    IF response.error THEN <<Failure("network error", 0)>> ELSE <<>>

\* lines 46-51: the calls of core.setFailed for one response
report(response) ==
    IF response.error
    THEN <<Failure("network error", 0)>>
    ELSE IF response.statusCode # 200
    THEN <<Failure("Request failed with status code", response.statusCode)>>
    ELSE <<>>

\* lines 17 and 42-53: one http.post, awaited
SendMessage ==
    /\ pc = "sendMessage"
    /\ \E response \in Responses :
          /\ posts' = Append(posts, [blocks |-> blocks])
          /\ responses' = Append(responses, response)
          /\ failures' = failures \o report(response)
    /\ pc' = "done"
    /\ UNCHANGED <<inputs, serviceName, markdown, versions, latestVersion, blocks>>

Next ==
    \/ GetServiceName
    \/ ReadChangeLog
    \/ ParseMarkdown
    \/ VersionToBlocks
    \/ AddHeader
    \/ SendMessage

(***************************************************************************)
(* The inputs.                                                             *)
(***************************************************************************)
NL == <<"\n">>
DATE == <<"2", "0", "2", "4", "-", "0", "1", "-", "0", "5">>

\* "# [1](u) (2024-01-05)"
L_HLINK == <<"#", " ", "[", "1", "]", "(", "u", ")", " ", "(">> \o DATE \o <<")">>
\* "## [2] (2024-01-05)"
L_HPLAIN == <<"#", "#", " ", "[", "2", "]", " ", "(">> \o DATE \o <<")">>
\* "# 1.2.0 (2024-01-05)"
L_HBARE == <<"#", " ", "1", ".", "2", ".", "0", " ", "(">> \o DATE \o <<")">>
\* "# [3](u)": a bracketed header with no date
L_HNODATE == <<"#", " ", "[", "3", "]", "(", "u", ")">>
\* "### F" and "### B"
L_SECF == <<"#", "#", "#", " ", "F">>
L_SECB == <<"#", "#", "#", " ", "B">>
\* "* a" and "* [x](u)"
L_ITEMA == <<"*", " ", "a">>
L_ITEMX == <<"*", " ", "[", "x", "]", "(", "u", ")">>
\* "#### D": no category
L_OTHER == <<"#", "#", "#", "#", " ", "D">>

LineSet == {L_HLINK, L_HPLAIN, L_HBARE, L_HNODATE, L_SECF, L_SECB, L_ITEMA, L_ITEMX, L_OTHER}

MaxLines == 4

SeqsUpTo(S, n) == UNION {[1..k -> S] : k \in 0..n}

Documents == {join(ls, NL) : ls \in SeqsUpTo(LineSet, MaxLines)}

ServiceInputs == {<<<<>>, <<"m", "y", "-", "a", "p", "p">>>>,
                  <<<<"S", "v", "c">>, <<"m", "y", "-", "a", "p", "p">>>>}

InitLocals ==
    /\ pc = "getServiceName"
    /\ serviceName = Undefined
    /\ markdown = Undefined
    /\ versions = <<>>
    /\ latestVersion = UndefinedObject
    /\ blocks = <<>>
    /\ posts = <<>>
    /\ responses = <<>>
    /\ failures = <<>>

Init ==
    /\ inputServiceName = <<>>
    /\ repoName = <<"m", "y", "-", "a", "p", "p">>
    /\ changeLogFile \in Documents \cup {Null}
    /\ InitLocals

Spec == Init /\ [][Next]_vars

(***************************************************************************)
(* List-item lines: a fixed header and section, then one item line made of *)
(* up to MaxTokens tokens.                                                 *)
(***************************************************************************)
ItemTokens == {<<"a">>, <<"c">>, <<"[", "x", "]", "(", "u", ")">>, <<"*">>, <<" ">>,
               <<"&">>, <<"<">>, <<">">>}

MaxTokens == 3

RECURSIVE concat(_)
concat(parts) == IF parts = <<>> THEN <<>> ELSE Head(parts) \o concat(Tail(parts))

ItemLines == {<<"*", " ">> \o concat(ts) : ts \in SeqsUpTo(ItemTokens, MaxTokens)}

InitItem ==
    /\ \E si \in ServiceInputs : inputServiceName = si[1] /\ repoName = si[2]
    /\ changeLogFile \in {join(<<L_HLINK, L_SECF, line>>, NL) : line \in ItemLines}
    /\ InitLocals

SpecItem == InitItem /\ [][Next]_vars

(***************************************************************************)
(* The renderer alone: versionToBlocks and addHeader applied to version    *)
(* records of up to MaxSections sections of up to MaxItems items.          *)
(***************************************************************************)
MaxSections == 2
MaxItems == 2

RenderHeaders ==
    {[version |-> <<"1">>, date |-> DATE, url |-> <<"u">>],
     [version |-> <<"2">>, date |-> DATE, url |-> <<>>],
     [version |-> <<"1", ".", "2", ".", "0">>, date |-> DATE, url |-> Undefined]}

RenderItems ==
    {[item |-> Undefined, sections |-> <<TextRun(<<"a">>)>>],
     [item |-> Undefined,
      sections |-> <<TextRun(<<>>), LinkRun(<<"[", "x", "]", "(", "u", ")">>, <<"u">>, <<"x">>),
                     TextRun(<<"b">>)>>]}

RenderSections ==
    [title : {<<"F">>, <<"B">>}, items : SeqsUpTo(RenderItems, MaxItems)]

RenderVersions ==
    [header : RenderHeaders, sections : SeqsUpTo(RenderSections, MaxSections)]

InitRender ==
    /\ \E si \in ServiceInputs :
          /\ inputServiceName = si[1]
          /\ repoName = si[2]
          /\ serviceName = getServiceName(si[1], si[2])
    /\ changeLogFile = Null
    /\ markdown = Undefined
    /\ \E v \in RenderVersions : versions = <<v>>
    /\ pc = "versionToBlocks"
    /\ latestVersion = UndefinedObject
    /\ blocks = <<>>
    /\ posts = <<>>
    /\ responses = <<>>
    /\ failures = <<>>

NextRender == VersionToBlocks \/ AddHeader

SpecRender == InitRender /\ [][NextRender]_vars

(***************************************************************************)
(* What the claims speak of, read off the change log itself.               *)
(***************************************************************************)
\* The lines of the change log on disk
DocLines == IF changeLogFile = Null THEN <<>> ELSE split(changeLogFile, NL)

IsHeaderLine(line) ==
    \/ startsWith(line, <<"#", " ", "[">>)
    \/ startsWith(line, <<"#", "#", " ", "[">>)
    \/ MatchBareHeader(line)

IsSectionLine(line) == startsWith(line, <<"#", "#", "#", " ">>)
IsItemLine(line) == startsWith(line, <<"*", " ">>)
IsContainerLine(line) == IsHeaderLine(line) \/ IsSectionLine(line)

HeaderLines == SelectSeq(DocLines, IsHeaderLine)

\* The indexes of the header lines, ascending
RECURSIVE indexesFrom(_, _)
indexesFrom(lines, k) ==
    IF k > Len(lines) THEN <<>>
    ELSE IF IsHeaderLine(lines[k]) THEN <<k>> \o indexesFrom(lines, k + 1)
    ELSE indexesFrom(lines, k + 1)

HeaderIndexes == indexesFrom(DocLines, 1)

\* The version written on each header line of LineSet
WrittenVersion(line) ==
    IF line = L_HLINK THEN <<"1">>
    ELSE IF line = L_HPLAIN THEN <<"2">>
    ELSE IF line = L_HBARE THEN <<"1", ".", "2", ".", "0">>
    ELSE IF line = L_HNODATE THEN <<"3">>
    ELSE Null

\* parseMarkdown has just returned normally
ParseReturned == pc = "versionToBlocks"

Reported(message) == \E i \in 1..Len(failures) : failures[i].message = message

Max(S) == CHOOSE x \in S : \A y \in S : x >= y

(***************************************************************************)
(* C1                                                                      *)
(***************************************************************************)
OneRecordPerHeaderInOrder(headerLines) ==
    /\ Len(versions) = Len(headerLines)
    /\ \A i \in 1..Len(headerLines) :
          versions[i].header.version = WrittenVersion(headerLines[i])

\* C1: whenever parseMarkdown returns, it returns one version record per
\* recognized header line, in the order of the header lines, with nothing
\* merged, reordered or dropped.
C1_OneRecordPerHeaderInOrder == ParseReturned => OneRecordPerHeaderInOrder(HeaderLines)

\* Three headers, the first and the third with the same version string.
C1_Witness ==
    /\ ParseReturned
    /\ Len(versions) = 3
    /\ versions[1].header.version = versions[3].header.version
    /\ versions[1].header.version # versions[2].header.version

(***************************************************************************)
(* C2                                                                      *)
(***************************************************************************)
SectionBeforeAnyHeader(lines) ==
    \E k \in 1..Len(lines) :
        /\ IsSectionLine(lines[k])
        /\ \A j \in 1..(k - 1) : ~IsHeaderLine(lines[j])

\* C2: a section line before any header line makes parseMarkdown fail; it
\* never returns normally with that section dropped.
C2_OrphanSectionFails == ParseReturned => ~SectionBeforeAnyHeader(DocLines)

(***************************************************************************)
(* C3                                                                      *)
(***************************************************************************)
\* C3: when the change log has no header line (and parsing returned), the run
\* fails as EmptyVersionList by a guard on the empty list: the renderer is not
\* called on undefined, and nothing is posted.
C3_EmptyVersionListGuarded ==
    (pc = "done" /\ changeLogFile # Null /\ HeaderLines = <<>> /\ ~Reported(ParseError)) =>
        /\ Reported("EmptyVersionList")
        /\ ~Reported(RenderError)
        /\ posts = <<>>

(***************************************************************************)
(* C4                                                                      *)
(***************************************************************************)
\* The normalized line with every link markup replaced by its display text
RECURSIVE linksAsText(_, _)
linksAsText(s, from) ==
    IF LinkFrom(s, from)[1] = 0
    THEN SubSeq(s, from, Len(s))
    ELSE SubSeq(s, from, LinkFrom(s, from)[1] - 1)
         \o MatchSquare(SubSeq(s, LinkFrom(s, from)[1], LinkFrom(s, from)[2]))
         \o linksAsText(s, LinkFrom(s, from)[2] + 1)

\* run.text of all runs, concatenated as JavaScript concatenates them
RECURSIVE runTexts(_)
runTexts(runs) ==
    IF runs = <<>> THEN <<>> ELSE Interp(Head(runs).text) \o runTexts(Tail(runs))

\* C4: the texts of the runs of an item, concatenated in order, are the
\* normalized line with every link markup replaced by its display text, also
\* when the same link markup occurs more than once.
C4_RunsRebuildLine ==
    (ParseReturned /\ Len(DocLines) = 3 /\ IsItemLine(DocLines[3])) =>
        runTexts(versions[1].sections[1].items[1].sections)
            = linksAsText(normalizeItem(DocLines[3]), 1)

(***************************************************************************)
(* C5                                                                      *)
(***************************************************************************)
RichTextOf(block, section) ==
    /\ block.type = "rich_text"
    /\ Len(block.elements) = 2
    /\ block.elements[1].elements[1].text = section.title \o NL
    /\ block.elements[2].type = "rich_text_list"
    /\ Len(block.elements[2].elements) = Len(section.items)
    /\ \A j \in 1..Len(section.items) :
          /\ Len(block.elements[2].elements[j].elements) = Len(section.items[j].sections)
          /\ \A r \in 1..Len(section.items[j].sections) :
                block.elements[2].elements[j].elements[r].text
                    = section.items[j].sections[r].text

\* C5: for a record with k sections versionToBlocks returns k+1 blocks: the
\* summary block, then one rich_text block per section in section order, each
\* with the section's title and one list entry per item in item order.
C5_BlockPerSectionInOrder ==
    pc = "addHeader" =>
        /\ Len(blocks) = Len(latestVersion.sections) + 1
        /\ blocks[1].type = "section"
        /\ \A i \in 1..Len(latestVersion.sections) :
              RichTextOf(blocks[i + 1], latestVersion.sections[i])

\* Two different sections, the first with two different items.
C5_Witness ==
    /\ pc = "addHeader"
    /\ Len(latestVersion.sections) = 2
    /\ latestVersion.sections[1] # latestVersion.sections[2]
    /\ Len(latestVersion.sections[1].items) = 2
    /\ latestVersion.sections[1].items[1] # latestVersion.sections[1].items[2]

(***************************************************************************)
(* C6                                                                      *)
(***************************************************************************)
ReleaseNote ==
    <<"R", "e", "l", "e", "a", "s", "e", " ", "N", "o", "t", "e", " ", "-", " ">>

\* C6: addHeader turns n blocks into n+1: one header block with the text
\* "Release Note - {serviceName}" in front, then the n blocks it was given,
\* unchanged and in order.
C6_HeaderPrepended ==
    [][pc = "addHeader" =>
          /\ Len(blocks') = Len(blocks) + 1
          /\ blocks'[1].type = "header"
          /\ blocks'[1].text.text = ReleaseNote \o serviceName
          /\ \A i \in 1..Len(blocks) : blocks'[i + 1] = blocks[i]]_vars

\* addHeader has run on two blocks.
C6_Witness ==
    /\ pc = "sendMessage"
    /\ Len(blocks) = 3
    /\ blocks[1].type = "header"
    /\ blocks[2] # blocks[3]

(***************************************************************************)
(* C7                                                                      *)
(***************************************************************************)
\* C7: at most one POST is issued in a run; when it answers a status other
\* than 200 or the network call errors, the run ends failed with the status
\* code or the error message reported, and no other POST follows.
C7_OnePostFailureReported ==
    /\ Len(posts) <= 1
    /\ (pc = "done" /\ responses # <<>>) =>
          /\ Len(responses) = 1
          /\ responses[1].error => failures = <<Failure("network error", 0)>>
          /\ (~responses[1].error /\ responses[1].statusCode # 200) =>
                failures = <<Failure("Request failed with status code",
                                     responses[1].statusCode)>>

\* The webhook answered 500 and the run ended failed.
C7_Witness ==
    /\ pc = "done"
    /\ Len(posts) = 1
    /\ ~responses[1].error
    /\ responses[1].statusCode = 500
    /\ failures # <<>>

(***************************************************************************)
(* C8                                                                      *)
(***************************************************************************)
\* C8: the first block's text is "{version} ({date})" when the record has no
\* url and "<{url}|{version}> ({date})" when it has one.
C8_SummaryText ==
    pc = "addHeader" =>
        blocks[1].text.text =
            IF Truthy(latestVersion.header.url)
            THEN <<"<">> \o latestVersion.header.url \o <<"|">>
                 \o latestVersion.header.version \o <<">", " ", "(">>
                 \o latestVersion.header.date \o <<")">>
            ELSE latestVersion.header.version \o <<" ", "(">>
                 \o latestVersion.header.date \o <<")">>

\* A record without url has been rendered.
C8_Witness ==
    /\ pc = "addHeader"
    /\ latestVersion.header.url = Undefined
    /\ blocks[1].text.text = <<"1", ".", "2", ".", "0", " ", "(">> \o DATE \o <<")">>

(***************************************************************************)
(* C9                                                                      *)
(***************************************************************************)
HasLink(line) == matchLinks(line) # <<>>

UrlOnlyFromLink(headerLines) ==
    \A i \in 1..Len(versions) :
        (i <= Len(headerLines) /\ versions[i].header.url # Undefined)
            => HasLink(headerLines[i])

\* C9: a returned record has a url only when its header line contains a link.
C9_UrlOnlyFromLink == ParseReturned => UrlOnlyFromLink(HeaderLines)

(***************************************************************************)
(* C10                                                                     *)
(***************************************************************************)
\* The last of lines before k that is a header or a section line, 0 if none
LastContainer(lines, k) == Max({0} \cup {j \in 1..(k - 1) : IsContainerLine(lines[j])})

\* Some item line follows a header, or nothing, with no section line between
ItemWithoutSection(lines) ==
    \E k \in 1..Len(lines) :
        /\ IsItemLine(lines[k])
        /\ LastContainer(lines, k) = 0 \/ IsHeaderLine(lines[LastContainer(lines, k)])

\* The indexes of the section lines between header line h and the next header
SectionIndexes(lines, h) ==
    SelectSeq([k \in 1..Len(lines) |-> k],
              LAMBDA k : /\ h < k
                         /\ IsSectionLine(lines[k])
                         /\ \A j \in (h + 1)..(k - 1) : ~IsHeaderLine(lines[j]))

\* The item lines that follow section line s before the next header or section
ItemLinesOf(lines, s) ==
    SelectSeq([k \in 1..Len(lines) |-> k],
              LAMBDA k : IsItemLine(lines[k]) /\ LastContainer(lines, k) = s)

\* The runs written on an item line
WrittenRuns(line) == ItemElements(line).elements[1].sections

\* section holds the title of section line s and the items that follow it
SectionHolds(lines, section, s) ==
    LET itemLines == ItemLinesOf(lines, s)
    IN  /\ section.title = SubSeq(lines[s], 5, Len(lines[s]))
        /\ Len(section.items) = Len(itemLines)
        /\ \A m \in 1..Len(itemLines) :
              section.items[m].sections = WrittenRuns(lines[itemLines[m]])

\* version holds the sections under header line h, in order
VersionHolds(lines, version, h) ==
    LET sectionLines == SectionIndexes(lines, h)
    IN  /\ Len(version.sections) = Len(sectionLines)
        /\ \A n \in 1..Len(sectionLines) :
              SectionHolds(lines, version.sections[n], sectionLines[n])

ItemsUnderCurrentSection(lines, headers) ==
    /\ ~ItemWithoutSection(lines)
    /\ Len(versions) = Len(headers)
    /\ \A i \in 1..Len(versions) : VersionHolds(lines, versions[i], headers[i])

\* C10: in the returned records every item sits in the section whose line most
\* recently precedes it, under the record of the most recent header, and in no
\* other; parseMarkdown never returns when an item line follows a header with
\* no section line in between: it fails instead.
C10_ItemsUnderCurrentSection ==
    ParseReturned => ItemsUnderCurrentSection(DocLines, HeaderIndexes)

\* The item after the second header has no section of that record to go to,
\* and the run has failed in parseMarkdown.
C10_Witness ==
    /\ pc = "done"
    /\ DocLines = <<L_HLINK, L_SECF, L_HBARE, L_ITEMA>>
    /\ failures = <<Failure(ParseError, 0)>>

====
